---- MODULE Spec2Model ----
(***************************************************************************)
(* Model of obsidian_fm: the DataAnalyzer index (analyzer.py) and the      *)
(* value normalizer of FrontmatterParser (parser.py).                      *)
(*                                                                         *)
(* Python values are tagged tuples:                                        *)
(*   None        <<"none">>                                                *)
(*   str s       <<"str", s>>                                              *)
(*   int n       <<"int", n>>                                              *)
(*   list        <<"list", <<v1, ..., vn>>>>                                *)
(*   dict        <<"dict", <<  <<k1, v1>>, ..., <<kn, vn>>  >>>>            *)
(*               (the pairs in insertion order, keys distinct strings)     *)
(*   tuple       <<"tuple", <<v1, ..., vn>>>>                               *)
(* An insertion-ordered Python dict with arbitrary keys (self.data, the    *)
(* dicts the queries return) is a sequence of <<key, value>> pairs with    *)
(* distinct keys.                                                          *)
(***************************************************************************)
EXTENDS Integers, Sequences, FiniteSets, TLC

VARIABLES data, lastOp, result

vars == <<data, lastOp, result>>

(***************************************************************************)
(* Bounds                                                                  *)
(***************************************************************************)
NumPaths == 2
MaxLimit == 1

Paths == 1..NumPaths

(***************************************************************************)
(* Python values                                                           *)
(***************************************************************************)
None == <<"none">>
Str(s) == <<"str", s>>
Num(n) == <<"int", n>>
List(xs) == <<"list", xs>>
Dict(ps) == <<"dict", ps>>
Tuple(xs) == <<"tuple", xs>>

IsList(v) == v[1] = "list"
IsDict(v) == v[1] = "dict"
IsTuple(v) == v[1] = "tuple"

\* x in d, d[x], d.keys() for a dict held as a sequence of pairs
HasKey(ps, k) == \E i \in 1..Len(ps) : ps[i][1] = k
Lookup(ps, k) == ps[CHOOSE i \in 1..Len(ps) : ps[i][1] = k][2]
Keys(ps) == {ps[i][1] : i \in 1..Len(ps)}

\* d.get(k, 0)
GetOrZero(ps, k) == IF HasKey(ps, k) THEN Lookup(ps, k) ELSE 0

\* bool(limit) for an Optional[int]: None and 0 are falsy
Truthy(limit) == limit # None /\ limit[2] # 0

\* xs[:n] for n >= 0
Take(xs, n) == SubSeq(xs, 1, IF n < Len(xs) THEN n ELSE Len(xs))

\* The strings of the model in Python's str order (code point order)
StrOrder == <<"", "A", "B", "C", "a", "b", "parent", "refs">>
StrRank(s) == CHOOSE i \in 1..Len(StrOrder) : StrOrder[i] = s

\* Variant of sorted_desc that leaves the order as it is
sorted_desc_unsorted(xs, keys) == xs

\* Variant of sorted_desc that is not stable: of two equal keys the later
\* item comes first
sorted_desc_ties_reversed(xs, keys) ==
  LET n == Len(xs)
      pos(i) == 1 + Cardinality({j \in 1..n :
                       keys[j] > keys[i] \/ (keys[j] = keys[i] /\ j > i)})
  IN [r \in 1..n |-> xs[CHOOSE i \in 1..n : pos(i) = r]]

\* sorted(xs, key=..., reverse=True) where keys[i] is the key of xs[i]:
\* Python's sort is stable and reverse=True keeps equal keys in their
\* original order, so xs[i] lands after every xs[j] with a larger key and
\* every earlier xs[j] with an equal key.
sorted_desc(xs, keys) ==
  LET n == Len(xs)
      pos(i) == 1 + Cardinality({j \in 1..n :
                       keys[j] > keys[i] \/ (keys[j] = keys[i] /\ j < i)})
  IN [r \in 1..n |-> xs[CHOOSE i \in 1..n : pos(i) = r]]

\* Variant of sorted_pairs that keeps the insertion order
sorted_pairs_unsorted(ps) == ps

\* sorted(pairs) for (key, value) tuples with distinct str keys: ascending
\* by key
sorted_pairs(ps) ==
  LET n == Len(ps)
      pos(i) == 1 + Cardinality({j \in 1..n :
                       StrRank(ps[j][2][1][2]) < StrRank(ps[i][2][1][2])})
  IN [r \in 1..n |-> ps[CHOOSE i \in 1..n : pos(i) = r]]

(***************************************************************************)
(* parser.py: FrontmatterParser.normalize_value                            *)
(***************************************************************************)
RECURSIVE normalize_value(_)
normalize_value(value) ==
  IF IsList(value)
    THEN Tuple([i \in 1..Len(value[2]) |-> normalize_value(value[2][i])])
  ELSE IF IsDict(value)
    THEN Tuple(sorted_pairs(
           [i \in 1..Len(value[2]) |->
              Tuple(<<Str(value[2][i][1]), normalize_value(value[2][i][2])>>)]))
  ELSE value

\* a == b on decoded values: lists compare element by element, dicts as
\* mappings (insertion order is ignored), values of different types differ
RECURSIVE PyEq(_, _)
PyEq(a, b) ==
  IF a[1] # b[1] THEN FALSE
  ELSE IF IsList(a)
    THEN /\ Len(a[2]) = Len(b[2])
         /\ \A i \in 1..Len(a[2]) : PyEq(a[2][i], b[2][i])
  ELSE IF IsDict(a)
    THEN /\ Keys(a[2]) = Keys(b[2])
         /\ \A k \in Keys(a[2]) : PyEq(Lookup(a[2], k), Lookup(b[2], k))
  ELSE a = b

(***************************************************************************)
(* analyzer.py: DataAnalyzer.  self.data is the sequence of                *)
(* <<file_path, frontmatter>> pairs in insertion order; a frontmatter is   *)
(* a dict value.  Each query is an operator of the index d.                *)
(***************************************************************************)

\* Variant of dict_set for an index kept as a list of entries: every store
\* appends
dict_set_append(d, k, v) == Append(d, <<k, v>>)

\* self.data[file_path] = frontmatter: a new key is appended, an existing
\* key keeps its position and gets the new value
dict_set(d, k, v) ==
  IF HasKey(d, k)
    THEN [i \in 1..Len(d) |-> IF d[i][1] = k THEN <<k, v>> ELSE d[i]]
    ELSE Append(d, <<k, v>>)

\* Variant of add_file with setdefault semantics: the first mapping of a
\* path wins
add_file_first_wins(d, file_path, frontmatter) ==
  IF frontmatter # None /\ ~HasKey(d, file_path)
    THEN Append(d, <<file_path, frontmatter>>)
    ELSE d

\* Variant of add_file that drops the entry of a path whose decode failed
add_file_drops_undecoded(d, file_path, frontmatter) ==
  IF frontmatter # None
    THEN dict_set(d, file_path, frontmatter)
    ELSE SelectSeq(d, LAMBDA e : e[1] # file_path)

\* Variant of add_file that tests the truth value of the mapping: an empty
\* mapping is not stored
add_file_skips_empty(d, file_path, frontmatter) ==
  IF frontmatter # None /\ Len(frontmatter[2]) > 0
    THEN dict_set(d, file_path, frontmatter)
    ELSE d

add_file(d, file_path, frontmatter) ==
  IF frontmatter # None THEN dict_set(d, file_path, frontmatter) ELSE d

get_all_attributes(d) ==
  UNION {Keys(d[i][2][2]) : i \in 1..Len(d)}

\* stats[attr] += 1 on a defaultdict(int)
dict_inc(counts, k) ==
  IF HasKey(counts, k)
    THEN [i \in 1..Len(counts) |->
            IF counts[i][1] = k THEN <<k, counts[i][2] + 1>> ELSE counts[i]]
    ELSE Append(counts, <<k, 1>>)

\* Variant of stats_keys that counts an attribute only when its value is
\* truthy
RECURSIVE stats_keys_truthy(_, _, _)
stats_keys_truthy(stats, fm, j) ==
  IF j > Len(fm) THEN stats
  ELSE IF fm[j][2] \in {None, Str(""), List(<<>>), Dict(<<>>)}
    THEN stats_keys_truthy(stats, fm, j + 1)
    ELSE stats_keys_truthy(dict_inc(stats, fm[j][1]), fm, j + 1)

\* the inner loop of get_attribute_stats over frontmatter.keys()
RECURSIVE stats_keys(_, _, _)
stats_keys(stats, fm, j) ==
  IF j > Len(fm) THEN stats
  ELSE stats_keys(dict_inc(stats, fm[j][1]), fm, j + 1)

RECURSIVE stats_loop(_, _, _)
stats_loop(stats, d, i) ==
  IF i > Len(d) THEN stats
  ELSE stats_loop(stats_keys(stats, d[i][2][2], 1), d, i + 1)

get_attribute_stats(d) == stats_loop(<<>>, d, 1)

_values_match(fm_value, search_value) ==
  IF IsList(fm_value)
    THEN \E i \in 1..Len(fm_value[2]) : PyEq(fm_value[2][i], search_value)
    ELSE PyEq(fm_value, search_value)

RECURSIVE files_loop(_, _, _, _, _, _)
files_loop(results, d, i, attribute, value, limit) ==
  IF i > Len(d) THEN results
  ELSE LET file_path == d[i][1]
           frontmatter == d[i][2][2]
           hit == /\ HasKey(frontmatter, attribute)
                  /\ \/ value = None
                     \/ _values_match(Lookup(frontmatter, attribute), value)
           results2 == IF hit THEN Append(results, file_path) ELSE results
       IN IF Truthy(limit) /\ Len(results2) >= limit[2]
            THEN results2
            ELSE files_loop(results2, d, i + 1, attribute, value, limit)

get_files_with_attribute(d, attribute, value, limit) ==
  files_loop(<<>>, d, 1, attribute, value, limit)

\* Variant of skipped_item without the empty string test
skipped_item_keeps_empty_str(item) ==
  \/ item = None
  \/ IsList(item) /\ Len(item[2]) = 0
  \/ IsDict(item) /\ Len(item[2]) = 0
  \/ normalize_value(item) = Tuple(<<>>)

\* the tokens the explode loop skips
skipped_item(item) ==
  \/ item = None
  \/ item = Str("")
  \/ IsList(item) /\ Len(item[2]) = 0
  \/ IsDict(item) /\ Len(item[2]) = 0
  \/ normalize_value(item) = Tuple(<<>>)

RECURSIVE explode_loop(_, _, _)
explode_loop(value_counts, items, j) ==
  IF j > Len(items) THEN value_counts
  ELSE IF skipped_item(items[j])
    THEN explode_loop(value_counts, items, j + 1)
    ELSE explode_loop(dict_inc(value_counts, normalize_value(items[j])),
                      items, j + 1)

RECURSIVE values_loop(_, _, _, _, _)
values_loop(value_counts, d, i, attribute, explode_list) ==
  IF i > Len(d) THEN value_counts
  ELSE LET frontmatter == d[i][2][2] IN
    IF ~HasKey(frontmatter, attribute)
      THEN values_loop(value_counts, d, i + 1, attribute, explode_list)
    ELSE LET value == Lookup(frontmatter, attribute) IN
      IF explode_list /\ IsList(value)
        THEN values_loop(explode_loop(value_counts, value[2], 1),
                         d, i + 1, attribute, explode_list)
        ELSE values_loop(dict_inc(value_counts, normalize_value(value)),
                         d, i + 1, attribute, explode_list)

\* if limit: sorted_values = sorted_values[:limit]
apply_limit(sorted_values, limit) ==
  IF Truthy(limit) THEN Take(sorted_values, limit[2]) ELSE sorted_values

get_attribute_values(d, attribute, limit, explode_list) ==
  LET value_counts == values_loop(<<>>, d, 1, attribute, explode_list)
      sorted_values == sorted_desc(value_counts,
                         [i \in 1..Len(value_counts) |-> value_counts[i][2]])
  IN apply_limit(sorted_values, limit)

get_child_count(d, hub_value, parent_attribute, refs_attribute) ==
  LET parent_counts == get_attribute_values(d, parent_attribute, None, FALSE)
      refs_counts == get_attribute_values(d, refs_attribute, None, TRUE)
      pc == GetOrZero(parent_counts, hub_value)
      rc == GetOrZero(refs_counts, hub_value)
  IN pc + rc

\* the set of hubs of get_child_counts_breakdown
breakdown_hubs(d, parent_attribute, refs_attribute) ==
  Keys(get_attribute_values(d, parent_attribute, None, FALSE))
    \cup Keys(get_attribute_values(d, refs_attribute, None, TRUE))

\* Variant of breakdown_entry whose total leaves the refs count out
breakdown_entry_total_parent(parent_counts, refs_counts, hub) ==
  LET pc == GetOrZero(parent_counts, hub)
      rc == GetOrZero(refs_counts, hub)
  IN [parent |-> pc, refs |-> rc, total |-> pc]

\* the entry breakdown[hub]
breakdown_entry(parent_counts, refs_counts, hub) ==
  LET pc == GetOrZero(parent_counts, hub)
      rc == GetOrZero(refs_counts, hub)
  IN [parent |-> pc, refs |-> rc, total |-> pc + rc]

\* `for hub in hubs` iterates a set in an order the language leaves open:
\* hub_order is the order this run iterates it in
get_child_counts_breakdown(d, hub_order, parent_attribute, refs_attribute) ==
  LET parent_counts == get_attribute_values(d, parent_attribute, None, FALSE)
      refs_counts == get_attribute_values(d, refs_attribute, None, TRUE)
      breakdown == [i \in 1..Len(hub_order) |->
                      <<hub_order[i],
                        breakdown_entry(parent_counts, refs_counts,
                                        hub_order[i])>>]
  IN sorted_desc(breakdown,
                 [i \in 1..Len(breakdown) |-> breakdown[i][2].total])

get_child_counts_total(d, hub_order, parent_attribute, refs_attribute) ==
  LET breakdown == get_child_counts_breakdown(d, hub_order,
                                              parent_attribute, refs_attribute)
      totals == [i \in 1..Len(breakdown) |->
                   <<breakdown[i][1], breakdown[i][2].total>>]
  IN sorted_desc(totals, [i \in 1..Len(totals) |-> totals[i][2]])

\* value_notes[normalized].append(file_path) on a defaultdict(list)
dict_append(value_notes, k, file_path) ==
  IF HasKey(value_notes, k)
    THEN [i \in 1..Len(value_notes) |->
            IF value_notes[i][1] = k
              THEN <<k, Append(value_notes[i][2], file_path)>>
              ELSE value_notes[i]]
    ELSE Append(value_notes, <<k, <<file_path>>>>)

RECURSIVE notes_loop(_, _, _, _)
notes_loop(value_notes, d, i, attribute) ==
  IF i > Len(d) THEN value_notes
  ELSE LET frontmatter == d[i][2][2] IN
    IF HasKey(frontmatter, attribute)
      THEN notes_loop(dict_append(value_notes,
                        normalize_value(Lookup(frontmatter, attribute)),
                        d[i][1]),
                      d, i + 1, attribute)
      ELSE notes_loop(value_notes, d, i + 1, attribute)

\* the entry of the result for one value: <<count, notes>>
notes_entry(value_notes, normalized_value, notes, limit_notes) ==
  <<Len(Lookup(value_notes, normalized_value)),
    IF Truthy(limit_notes) THEN Take(notes, limit_notes[2]) ELSE notes>>

get_attribute_values_with_notes(d, attribute, limit_values, limit_notes) ==
  LET value_notes == notes_loop(<<>>, d, 1, attribute)
      sorted_values == apply_limit(
                         sorted_desc(value_notes,
                           [i \in 1..Len(value_notes) |->
                              Len(value_notes[i][2])]),
                         limit_values)
  IN [i \in 1..Len(sorted_values) |->
        <<sorted_values[i][1],
          notes_entry(value_notes, sorted_values[i][1],
                      sorted_values[i][2], limit_notes)>>]

get_total_files(d) == Len(d)

get_files_with_frontmatter(d) ==
  Cardinality({i \in 1..Len(d) : Len(d[i][2][2]) > 0})

(***************************************************************************)
(* Inputs of the calls                                                     *)
(***************************************************************************)
A == Str("A")
B == Str("B")

\* the frontmatter mappings a decoded note can carry
Frontmatters ==
  { Dict(<<>>),
    Dict(<< <<"parent", A>>, <<"refs", A>> >>),
    Dict(<< <<"parent", B>>, <<"refs", List(<<A, A>>)>> >>),
    Dict(<< <<"refs", List(<<B, A>>)>> >>),
    Dict(<< <<"parent", None>>,
            <<"refs", List(<<None, Str(""), List(<<>>), Dict(<<>>),
                             List(<<B, A>>)>>)>> >>),
    Dict(<< <<"parent", List(<<B, A>>)>>, <<"refs", List(<<>>)>> >>),
    Dict(<< <<"parent", A>>, <<"refs", Dict(<<>>)>> >>) }

\* attribute names asked for: the two in use and one no note contains
QueryAttrs == {"parent", "refs", ""}

\* (parent_attribute, refs_attribute) of the child count queries
AttrPairs == {<<"parent", "refs">>, <<"", "">>}

\* values searched for by get_files_with_attribute
SearchValues == {A, Str("C"), List(<<B, A>>)}

\* hub values, in normalized form
Hubs == {A, B, Str("C"), Tuple(<<B, A>>)}

\* Optional[int] limits
OptLimits == {None} \cup {Num(n) : n \in 0..MaxLimit}

\* the orders in which a set can be iterated
RECURSIVE Orders(_)
Orders(S) ==
  IF S = {} THEN {<<>>}
  ELSE UNION {{<<x>> \o o : o \in Orders(S \ {x})} : x \in S}

(***************************************************************************)
(* The state machine.  The analyzer is a synchronous object: a caller      *)
(* makes one call at a time, and every call runs to its end before the    *)
(* next one starts.  lastOp is the call that has just returned (op "idle"  *)
(* when the caller has moved on), result is what it returned.              *)
(***************************************************************************)
Call(op, args) == [op |-> op, args |-> args]

Idle == lastOp.op = "idle"

\* DataAnalyzer.__init__
Init ==
  /\ data = <<>>
  /\ lastOp = Call("idle", <<>>)
  /\ result = None

Call_add_file ==
  /\ Idle
  /\ \E file_path \in Paths, frontmatter \in Frontmatters \cup {None} :
       /\ data' = add_file(data, file_path, frontmatter)
       /\ lastOp' = Call("add_file", <<file_path, frontmatter>>)
       /\ result' = None

Call_get_all_attributes ==
  /\ Idle
  /\ lastOp' = Call("get_all_attributes", <<>>)
  /\ result' = get_all_attributes(data)
  /\ UNCHANGED data

Call_get_attribute_stats ==
  /\ Idle
  /\ lastOp' = Call("get_attribute_stats", <<>>)
  /\ result' = get_attribute_stats(data)
  /\ UNCHANGED data

Call_get_files_with_attribute ==
  /\ Idle
  /\ \E attribute \in QueryAttrs, value \in SearchValues \cup {None},
        limit \in OptLimits :
       /\ lastOp' = Call("get_files_with_attribute",
                         <<attribute, value, limit>>)
       /\ result' = get_files_with_attribute(data, attribute, value, limit)
       /\ UNCHANGED data

Call_get_attribute_values ==
  /\ Idle
  /\ \E attribute \in QueryAttrs, limit \in OptLimits,
        explode_list \in BOOLEAN :
       /\ lastOp' = Call("get_attribute_values",
                         <<attribute, limit, explode_list>>)
       /\ result' = get_attribute_values(data, attribute, limit, explode_list)
       /\ UNCHANGED data

Call_get_child_count ==
  /\ Idle
  /\ \E hub_value \in Hubs, attrs \in AttrPairs :
       /\ lastOp' = Call("get_child_count", <<hub_value, attrs[1], attrs[2]>>)
       /\ result' = get_child_count(data, hub_value, attrs[1], attrs[2])
       /\ UNCHANGED data

Call_get_child_counts_total ==
  /\ Idle
  /\ \E attrs \in AttrPairs :
       \E hub_order \in Orders(breakdown_hubs(data, attrs[1], attrs[2])) :
         /\ lastOp' = Call("get_child_counts_total", <<attrs[1], attrs[2]>>)
         /\ result' = get_child_counts_total(data, hub_order,
                                             attrs[1], attrs[2])
         /\ UNCHANGED data

Call_get_child_counts_breakdown ==
  /\ Idle
  /\ \E attrs \in AttrPairs :
       \E hub_order \in Orders(breakdown_hubs(data, attrs[1], attrs[2])) :
         /\ lastOp' = Call("get_child_counts_breakdown",
                           <<attrs[1], attrs[2]>>)
         /\ result' = get_child_counts_breakdown(data, hub_order,
                                                 attrs[1], attrs[2])
         /\ UNCHANGED data

Call_get_attribute_values_with_notes ==
  /\ Idle
  /\ \E attribute \in QueryAttrs, limit_values \in OptLimits,
        limit_notes \in OptLimits :
       /\ lastOp' = Call("get_attribute_values_with_notes",
                         <<attribute, limit_values, limit_notes>>)
       /\ result' = get_attribute_values_with_notes(data, attribute,
                                                    limit_values, limit_notes)
       /\ UNCHANGED data

Call_get_total_files ==
  /\ Idle
  /\ lastOp' = Call("get_total_files", <<>>)
  /\ result' = get_total_files(data)
  /\ UNCHANGED data

Call_get_files_with_frontmatter ==
  /\ Idle
  /\ lastOp' = Call("get_files_with_frontmatter", <<>>)
  /\ result' = get_files_with_frontmatter(data)
  /\ UNCHANGED data

\* the caller has used the result and moves on to its next call
Return ==
  /\ ~Idle
  /\ lastOp' = Call("idle", <<>>)
  /\ result' = None
  /\ UNCHANGED data

Next ==
  \/ Call_add_file
  \/ Call_get_all_attributes
  \/ Call_get_attribute_stats
  \/ Call_get_files_with_attribute
  \/ Call_get_attribute_values
  \/ Call_get_child_count
  \/ Call_get_child_counts_total
  \/ Call_get_child_counts_breakdown
  \/ Call_get_attribute_values_with_notes
  \/ Call_get_total_files
  \/ Call_get_files_with_frontmatter
  \/ Return

Spec == Init /\ [][Next]_vars

\* The index holds one entry per path
TypeOK ==
  /\ \A i \in 1..Len(data) : data[i][1] \in Paths /\ data[i][2] \in Frontmatters
  /\ \A i, j \in 1..Len(data) : data[i][1] = data[j][1] => i = j

(***************************************************************************)
(* parser.py: FrontmatterParser.denormalize_value.  A dict it builds has   *)
(* the first components of the pairs as keys; they are values (a str, None *)
(* or a tuple), so such a dict is held with its keys as values.            *)
(***************************************************************************)

\* hash(k) succeeds: a list and a dict are unhashable, a tuple is hashable
\* when its items are
RECURSIVE hashable(_)
hashable(k) ==
  IF IsList(k) \/ IsDict(k) THEN FALSE
  ELSE IF IsTuple(k) THEN \A i \in 1..Len(k[2]) : hashable(k[2][i])
  ELSE TRUE

\* Variant of all_pairs that never recognizes a tuple of pairs
all_pairs_never(value) == FALSE

\* value and all(isinstance(item, tuple) and len(item) == 2
\*               for item in value)
all_pairs(value) ==
  /\ Len(value[2]) > 0
  /\ \A i \in 1..Len(value[2]) :
       IsTuple(value[2][i]) /\ Len(value[2][i][2]) = 2

RECURSIVE denormalize_value(_), dict_comprehension(_, _)

\* {k: denormalize_value(v) for k, v in value} over the first n items: a
\* key seen again keeps its position and takes the later value
dict_comprehension(items, n) ==
  IF n = 0 THEN <<>>
  ELSE dict_set(dict_comprehension(items, n - 1),
                items[n][2][1], denormalize_value(items[n][2][2]))

denormalize_value(value) ==
  IF IsTuple(value)
    THEN IF all_pairs(value)
           THEN IF \A i \in 1..Len(value[2]) : hashable(value[2][i][2][1])
                  THEN Dict(dict_comprehension(value[2], Len(value[2])))
                  \* except (TypeError, ValueError)
                  ELSE List([i \in 1..Len(value[2]) |->
                               denormalize_value(value[2][i])])
           ELSE List([i \in 1..Len(value[2]) |->
                        denormalize_value(value[2][i])])
  ELSE value

\* result == v for a result of denormalize_value and a decoded value v (the
\* keys of v's dicts are str): dicts compare as mappings
RECURSIVE denormalized_eq(_, _)
denormalized_eq(r, v) ==
  IF r[1] # v[1] THEN FALSE
  ELSE IF IsList(r)
    THEN /\ Len(r[2]) = Len(v[2])
         /\ \A i \in 1..Len(r[2]) : denormalized_eq(r[2][i], v[2][i])
  ELSE IF IsDict(r)
    THEN /\ Len(r[2]) = Len(v[2])
         /\ \A i \in 1..Len(r[2]) :
              /\ r[2][i][1][1] = "str"
              /\ HasKey(v[2], r[2][i][1][2])
              /\ denormalized_eq(r[2][i][2], Lookup(v[2], r[2][i][1][2]))
  ELSE r = v

(***************************************************************************)
(* The values the two conversions are applied to: scalars, lists of at     *)
(* most MaxLen elements and mappings over the keys "a" and "b" in either   *)
(* insertion order, nested twice.                                          *)
(***************************************************************************)
MaxLen == 2

Scalars == {None, A}
MappingKeys == {"a", "b"}

ListsOver(S) == {List(xs) : xs \in UNION {[1..n -> S] : n \in 0..MaxLen}}

DictsOver(S) ==
  {Dict(<<>>)}
    \cup {Dict(<< <<k, x>> >>) : k \in MappingKeys, x \in S}
    \cup {Dict(<< <<k[1], x>>, <<k[2], y>> >>) :
            k \in {kk \in MappingKeys \X MappingKeys : kk[1] # kk[2]},
            x \in S, y \in S}

Nested == Scalars \cup ListsOver(Scalars) \cup DictsOver(Scalars)

Values == Nested \cup ListsOver(Nested) \cup DictsOver(Nested)

(***************************************************************************)
(* The conversions as a state machine: a value is normalized, the          *)
(* canonical value is denormalized.  lastOp.args[1] is the argument of the *)
(* call; for denormalize_value lastOp.args[2] is the value its argument    *)
(* was normalized from.                                                    *)
(***************************************************************************)
InitNorm ==
  /\ data = <<>>
  /\ lastOp = Call("idle", <<>>)
  /\ result = None

Call_normalize_value ==
  /\ Idle
  /\ \E value \in Values :
       /\ lastOp' = Call("normalize_value", <<value>>)
       /\ result' = normalize_value(value)
  /\ UNCHANGED data

Call_denormalize_value ==
  /\ lastOp.op = "normalize_value"
  /\ lastOp' = Call("denormalize_value", <<result, lastOp.args[1]>>)
  /\ result' = denormalize_value(result)
  /\ UNCHANGED data

ReturnNorm ==
  /\ lastOp.op = "denormalize_value"
  /\ lastOp' = Call("idle", <<>>)
  /\ result' = None
  /\ UNCHANGED data

NextNorm ==
  \/ Call_normalize_value
  \/ Call_denormalize_value
  \/ ReturnNorm

SpecNorm == InitNorm /\ [][NextNorm]_vars

(***************************************************************************)
(* cli.py: scan_and_analyze.  The scanner yields the note files of the     *)
(* vault one by one, each path once; every file is parsed and handed to    *)
(* add_file.  lastOp.op is the position of the loop and lastOp.args[1],    *)
(* discovered, the sequence of <<file_path, frontmatter>> the loop has got *)
(* so far: the paths the scanner yielded with what parse_file returned.    *)
(***************************************************************************)

\* What reading a file gives: an error raised by open or frontmatter.load,
\* or the metadata of the post (empty when the note has no metadata block)
ReadErrors == {"OSError", "UnicodeDecodeError", "Exception"}

Reads ==
  {[error |-> err, metadata |-> <<>>] : err \in ReadErrors}
    \cup {[error |-> "", metadata |-> fm[2]] : fm \in Frontmatters}

\* FrontmatterParser.parse_file
parse_file(read) ==
  IF read.error # "" THEN None
  ELSE IF Len(read.metadata) > 0 THEN Dict(read.metadata)
  ELSE Dict(<<>>)

\* analyzer = DataAnalyzer(); scanner.scan() has not been asked yet
InitIngest ==
  /\ data = <<>>
  /\ lastOp = Call("scan_and_analyze", << <<>> >>)
  /\ result = None

\* for file_path in scanner.scan(): frontmatter = parser.parse_file(...)
Scan_parse_file ==
  /\ lastOp.op = "scan_and_analyze"
  /\ LET discovered == lastOp.args[1] IN
     \E file_path \in Paths \ Keys(discovered), read \in Reads :
       /\ lastOp' = Call("parse_file",
                         <<Append(discovered,
                                  <<file_path, parse_file(read)>>)>>)
       /\ result' = parse_file(read)
  /\ UNCHANGED data

\* analyzer.add_file(file_path, frontmatter)
Scan_add_file ==
  /\ lastOp.op = "parse_file"
  /\ LET discovered == lastOp.args[1]
         file_path == discovered[Len(discovered)][1]
     IN data' = add_file(data, file_path, result)
  /\ lastOp' = Call("scan_and_analyze", lastOp.args)
  /\ result' = None

\* the scanner is exhausted: return analyzer
Scan_complete ==
  /\ lastOp.op = "scan_and_analyze"
  /\ lastOp' = Call("return", lastOp.args)
  /\ result' = None
  /\ UNCHANGED data

\* stats: analyzer.get_total_files()
Stats_get_total_files ==
  /\ lastOp.op = "return"
  /\ lastOp' = Call("stats", lastOp.args)
  /\ result' = get_total_files(data)
  /\ UNCHANGED data

NextIngest ==
  \/ Scan_parse_file
  \/ Scan_add_file
  \/ Scan_complete
  \/ Stats_get_total_files

SpecIngest == InitIngest /\ [][NextIngest]_vars

(***************************************************************************)
(* scanner.py: VaultScanner.  A name is the sequence of its characters, a  *)
(* path the sequence of the names below the vault root.  An entry of a     *)
(* directory has a name and a kind: "file" (is_file() is true), "dir"      *)
(* (is_dir() is true), "other" (both are false: a socket, a broken link)   *)
(* or "denied" (stat raises PermissionError: a link into a directory that  *)
(* may not be searched, or any entry of a directory that may be listed but *)
(* not searched).                                                          *)
(***************************************************************************)
MaxEntries == 2
MaxDepth == 2

SKIP_DIRS ==
  { <<".", "o", "b", "s", "i", "d", "i", "a", "n">>,
    <<".", "t", "r", "a", "s", "h">>,
    <<".", "g", "i", "t">>,
    <<"_", "_", "p", "y", "c", "a", "c", "h", "e", "_", "_">>,
    <<"n", "o", "d", "e", "_", "m", "o", "d", "u", "l", "e", "s">> }

\* ['.md', '.markdown']
NoteSuffixes ==
  { <<".", "m", "d">>, <<".", "m", "a", "r", "k", "d", "o", "w", "n">> }

UpperCase ==
  <<"A", "B", "C", "D", "E", "F", "G", "H", "I", "J", "K", "L", "M",
    "N", "O", "P", "Q", "R", "S", "T", "U", "V", "W", "X", "Y", "Z">>
LowerCase ==
  <<"a", "b", "c", "d", "e", "f", "g", "h", "i", "j", "k", "l", "m",
    "n", "o", "p", "q", "r", "s", "t", "u", "v", "w", "x", "y", "z">>

\* str.lower()
lower(s) ==
  [k \in 1..Len(s) |->
     IF \E u \in 1..Len(UpperCase) : UpperCase[u] = s[k]
       THEN LowerCase[CHOOSE u \in 1..Len(UpperCase) : UpperCase[u] = s[k]]
       ELSE s[k]]

\* PurePath.suffix: the name from its last dot on, unless that dot is the
\* first or the last character
suffix(name) ==
  LET dots == {k \in 1..Len(name) : name[k] = "."}
      last == CHOOSE k \in dots : \A l \in dots : l <= k
  IN IF dots # {} /\ 1 < last /\ last < Len(name)
       THEN SubSeq(name, last, Len(name))
       ELSE <<>>

\* item.name.startswith('.') or item.name in self.SKIP_DIRS
skipped_name(name) == name[1] = "." \/ name \in SKIP_DIRS

\* item.suffix.lower() in ['.md', '.markdown']
is_note_suffix(name) == lower(suffix(name)) \in NoteSuffixes

Entry(name, kind) == [name |-> name, kind |-> kind]

\* The entries a directory of the vault may hold
Entries ==
  { Entry(<<"a", ".", "m", "d">>, "file"),
    Entry(<<"b", ".", "M", "D">>, "file"),
    Entry(<<".", "c", ".", "m", "d">>, "file"),
    Entry(<<"d", ".", "t", "x", "t">>, "file"),
    Entry(<<"e", ".", "M", "a", "r", "k", "d", "o", "w", "n">>, "file"),
    Entry(<<"f", ".", "m", "d">>, "other"),
    Entry(<<"s", "u", "b">>, "dir"),
    Entry(<<"g", ".", "m", "d">>, "dir"),
    Entry(<<".", "g", "i", "t">>, "dir"),
    Entry(<<"n", "o", "d", "e", "_", "m", "o", "d", "u", "l", "e", "s">>,
          "dir"),
    Entry(<<"l", "i", "n", "k">>, "denied") }

\* the vault is at most MaxDepth directories deep
EntriesAt(depth) ==
  IF depth < MaxDepth THEN Entries
  ELSE {e \in Entries : e.kind # "dir" \/ skipped_name(e.name)}

\* os.listdir: at most n entries, in any order, no entry twice
Listings(S, n) ==
  {s \in UNION {[1..k -> S] : k \in 0..n} :
     \A i, j \in 1..Len(s) : i # j => s[i] # s[j]}

\* The traversal as a state machine.  lastOp.args is <<directory,
\* remaining, item>>: the path of the directory whose loop is running, the
\* entries of its listing the loop has not reached yet, and the entry the
\* last step was about.  result is the path the last step yielded.  The
\* entries a directory still holds after a subdirectory are drawn when the
\* traversal comes back to it.
NoEntry == Entry(<<>>, "")

\* scanner.scan(): self._scan_directory(self.vault_path)
InitScan ==
  /\ data = <<>>
  /\ lastOp = Call("_scan_directory", << <<>>, <<>>, NoEntry >>)
  /\ result = None

InLoop == lastOp.op \in {"iterdir", "continue", "yield", "resume"}

\* directory.iterdir() lists the directory
Scan_iterdir ==
  /\ lastOp.op = "_scan_directory"
  /\ \E listing \in Listings(EntriesAt(Len(lastOp.args[1])), MaxEntries) :
       lastOp' = Call("iterdir", <<lastOp.args[1], listing, NoEntry>>)
  /\ result' = None
  /\ UNCHANGED data

\* directory.iterdir() raises PermissionError: except PermissionError: pass
Scan_iterdir_denied ==
  /\ lastOp.op = "_scan_directory"
  /\ lastOp' = Call("PermissionError", <<lastOp.args[1], <<>>, NoEntry>>)
  /\ result' = None
  /\ UNCHANGED data

\* One iteration of the loop over the listing
Scan_item ==
  /\ InLoop
  /\ Len(lastOp.args[2]) > 0
  /\ LET directory == lastOp.args[1]
         item == Head(lastOp.args[2])
         remaining == Tail(lastOp.args[2])
     IN IF skipped_name(item.name)
          THEN /\ lastOp' = Call("continue", <<directory, remaining, item>>)
               /\ result' = None
        ELSE IF item.kind = "denied"
          \* item.is_dir() raises PermissionError, the loop is left
          THEN /\ lastOp' = Call("PermissionError",
                                 <<directory, remaining, item>>)
               /\ result' = None
        ELSE IF item.kind = "dir"
          THEN /\ lastOp' = Call("_scan_directory",
                                 <<Append(directory, item.name), <<>>, item>>)
               /\ result' = None
        ELSE IF item.kind = "file" /\ is_note_suffix(item.name)
          THEN /\ lastOp' = Call("yield", <<directory, remaining, item>>)
               /\ result' = Append(directory, item.name)
        ELSE /\ lastOp' = Call("continue", <<directory, remaining, item>>)
             /\ result' = None
  /\ UNCHANGED data

\* the listing is exhausted
Scan_exhausted ==
  /\ InLoop
  /\ Len(lastOp.args[2]) = 0
  /\ lastOp' = Call("StopIteration", <<lastOp.args[1], <<>>, NoEntry>>)
  /\ result' = None
  /\ UNCHANGED data

\* yield from self._scan_directory(item) is over: the loop of the parent
\* directory goes on with the rest of its listing
Scan_resume ==
  /\ lastOp.op \in {"StopIteration", "PermissionError"}
  /\ Len(lastOp.args[1]) > 0
  /\ LET directory == lastOp.args[1]
         parent == SubSeq(directory, 1, Len(directory) - 1)
         others == {e \in EntriesAt(Len(parent)) :
                      e.name # directory[Len(directory)]}
     IN \E rest \in Listings(others, MaxEntries - 1) :
          lastOp' = Call("resume", <<parent, rest, NoEntry>>)
  /\ result' = None
  /\ UNCHANGED data

NextScan ==
  \/ Scan_iterdir
  \/ Scan_iterdir_denied
  \/ Scan_item
  \/ Scan_exhausted
  \/ Scan_resume

SpecScan == InitScan /\ [][NextScan]_vars

(***************************************************************************)
(* Properties                                                              *)
(***************************************************************************)

\* C1: get_child_count(h, parent_attribute, refs_attribute) equals
\* parentCount(h) + refsCount(h), where parentCount(h) is the number of
\* indexed notes whose parent_attribute value normalizes to h and
\* refsCount(h) the number of indexed notes whose refs_attribute value is a
\* list with an element that normalizes to h (a note counts once, a note
\* whose refs_attribute value is not a list counts zero times).
C1_ChildCountIsParentPlusRefs ==
  lastOp.op = "get_child_count" =>
    LET h == lastOp.args[1]
        pa == lastOp.args[2]
        ra == lastOp.args[3]
        fm(i) == data[i][2][2]
        parentCount == Cardinality({i \in 1..Len(data) :
                         /\ HasKey(fm(i), pa)
                         /\ normalize_value(Lookup(fm(i), pa)) = h})
        refsCount == Cardinality({i \in 1..Len(data) :
                       /\ HasKey(fm(i), ra)
                       /\ IsList(Lookup(fm(i), ra))
                       /\ \E j \in 1..Len(Lookup(fm(i), ra)[2]) :
                            normalize_value(Lookup(fm(i), ra)[2][j]) = h})
    IN result = parentCount + refsCount

\* C2: the keys of get_child_counts_breakdown() and of
\* get_child_counts_total() are exactly the values counted by
\* get_attribute_values(parent_attribute, explode_list=False) together with
\* those counted by get_attribute_values(refs_attribute, explode_list=True);
\* each key's total equals get_child_count of that hub and parent + refs;
\* a value that no note has as parent or ref is not a key.
C2_BreakdownKeysAndTotals ==
  lastOp.op \in {"get_child_counts_breakdown", "get_child_counts_total"} =>
    LET pa == lastOp.args[1]
        ra == lastOp.args[2]
        fm(i) == data[i][2][2]
        total(i) == IF lastOp.op = "get_child_counts_total"
                      THEN result[i][2] ELSE result[i][2].total
        appears(h) ==
          \E i \in 1..Len(data) :
            \/ HasKey(fm(i), pa) /\ normalize_value(Lookup(fm(i), pa)) = h
            \/ /\ HasKey(fm(i), ra)
               /\ IF IsList(Lookup(fm(i), ra))
                    THEN \E j \in 1..Len(Lookup(fm(i), ra)[2]) :
                           normalize_value(Lookup(fm(i), ra)[2][j]) = h
                    ELSE normalize_value(Lookup(fm(i), ra)) = h
    IN /\ Keys(result) =
            Keys(get_attribute_values(data, pa, None, FALSE))
              \cup Keys(get_attribute_values(data, ra, None, TRUE))
       /\ Cardinality(Keys(result)) = Len(result)
       /\ \A i \in 1..Len(result) :
            /\ total(i) = get_child_count(data, result[i][1], pa, ra)
            /\ appears(result[i][1])
            /\ lastOp.op = "get_child_counts_breakdown" =>
                 result[i][2].total = result[i][2].parent + result[i][2].refs

\* C2 happens: a breakdown with a hub that is both a parent and a ref and
\* a second hub
C2_Witness ==
  /\ lastOp.op = "get_child_counts_breakdown"
  /\ Len(result) >= 2
  /\ \E i \in 1..Len(result) :
       result[i][2].parent > 0 /\ result[i][2].refs > 0

\* C3: get_attribute_stats()[k] is the number of paths in the index whose
\* mapping contains key k, whatever the value; an attribute that no mapping
\* contains is absent; the keys of the result are get_all_attributes().
C3_AttributeStatsCountPresence ==
  lastOp.op = "get_attribute_stats" =>
    LET withKey(k) == {data[i][1] : i \in {j \in 1..Len(data) :
                                              HasKey(data[j][2][2], k)}}
    IN /\ Cardinality(Keys(result)) = Len(result)
       /\ Keys(result) = get_all_attributes(data)
       /\ \A k \in QueryAttrs \cup Keys(result) :
            IF withKey(k) = {}
              THEN ~HasKey(result, k)
              ELSE HasKey(result, k)
                     /\ Lookup(result, k) = Cardinality(withKey(k))

\* C3 happens: an attribute in two notes, one of them with a null value
C3_Witness ==
  /\ lastOp.op = "get_attribute_stats"
  /\ \E k \in Keys(result) :
       /\ Lookup(result, k) = 2
       /\ \E i \in 1..Len(data) :
            HasKey(data[i][2][2], k) /\ Lookup(data[i][2][2], k) = None

\* C4: add_file(path, None) leaves the index unchanged; add_file(path, m)
\* with m not None (the empty mapping too) sets index[path] = m, replacing
\* an earlier mapping of the path, and leaves every other path's entry
\* unchanged.
C4_AddFileFrame ==
  [][lastOp'.op = "add_file" =>
       LET p == lastOp'.args[1]
           m == lastOp'.args[2]
       IN IF m = None
            THEN data' = data
            ELSE /\ HasKey(data', p) /\ Lookup(data', p) = m
                 /\ Cardinality(Keys(data')) = Len(data')
                 /\ \A q \in Paths \ {p} :
                      /\ HasKey(data', q) = HasKey(data, q)
                      /\ HasKey(data, q) => Lookup(data', q) = Lookup(data, q)
    ]_vars

\* C4 happens: add_file has just stored a mapping for a path that was
\* ingested before another path, so it replaced that path's mapping
C4_Witness ==
  /\ lastOp.op = "add_file"
  /\ lastOp.args[2] # None
  /\ Len(data) >= 2
  /\ data[1][1] = lastOp.args[1]

\* C5: add_file(p, m) twice in a row yields the same index as once, hence
\* the same get_attribute_stats(), get_total_files() and
\* get_attribute_values(a): in the state add_file(p, m) has just produced,
\* the same call changes nothing.
C5_AddFileIdempotent ==
  lastOp.op = "add_file" =>
    LET twice == add_file(data, lastOp.args[1], lastOp.args[2])
    IN /\ twice = data
       /\ get_attribute_stats(twice) = get_attribute_stats(data)
       /\ get_total_files(twice) = get_total_files(data)
       /\ \A a \in QueryAttrs, e \in BOOLEAN :
            get_attribute_values(twice, a, None, e)
              = get_attribute_values(data, a, None, e)

\* C5 happens: add_file has stored a mapping with attributes
C5_Witness ==
  /\ lastOp.op = "add_file"
  /\ lastOp.args[2] # None
  /\ HasKey(data, lastOp.args[1])
  /\ Len(Lookup(data, lastOp.args[1])[2]) > 0

\* C6: get_attribute_values(attribute, explode_list=True): in a note whose
\* attribute value is a list, an element that is null, the empty string,
\* an empty list or an empty mapping contributes nothing and every other
\* element adds 1 to the count of its normalized form; a note whose value
\* is not a list adds 1 to the count of its normalized value; the empty
\* tuple is never a key that comes from a list element.
C6_ExplodeCounts ==
  (lastOp.op = "get_attribute_values" /\ lastOp.args[3]) =>
    LET attribute == lastOp.args[1]
        limit == lastOp.args[2]
        withAttr == {i \in 1..Len(data) : HasKey(data[i][2][2], attribute)}
        val(i) == Lookup(data[i][2][2], attribute)
        empty(item) == item \in {None, Str(""), List(<<>>), Dict(<<>>)}
        elements == UNION {{<<i, j>> : j \in 1..Len(val(i)[2])} :
                             i \in {n \in withAttr : IsList(val(n))}}
        counted == {e \in elements : ~empty(val(e[1])[2][e[2]])}
        whole == {i \in withAttr : ~IsList(val(i))}
        expected(v) ==
          Cardinality({e \in counted :
                         normalize_value(val(e[1])[2][e[2]]) = v})
            + Cardinality({i \in whole : normalize_value(val(i)) = v})
        values == {normalize_value(val(e[1])[2][e[2]]) : e \in counted}
                    \cup {normalize_value(val(i)) : i \in whole}
    IN /\ Cardinality(Keys(result)) = Len(result)
       /\ Keys(result) \subseteq values
       /\ \A i \in 1..Len(result) : result[i][2] = expected(result[i][1])
       /\ ~Truthy(limit) => Keys(result) = values
       /\ whole = {} => ~HasKey(result, Tuple(<<>>))

\* C6 happens: the attribute is exploded over a note whose list has
\* skipped elements and a note whose value is not a list
C6_Witness ==
  /\ lastOp.op = "get_attribute_values"
  /\ lastOp.args[3]
  /\ Len(result) >= 2
  /\ \E i \in 1..Len(data) :
       /\ HasKey(data[i][2][2], lastOp.args[1])
       /\ ~IsList(Lookup(data[i][2][2], lastOp.args[1]))
  /\ \E i \in 1..Len(data) :
       /\ HasKey(data[i][2][2], lastOp.args[1])
       /\ IsList(Lookup(data[i][2][2], lastOp.args[1]))
       /\ \E j \in 1..Len(Lookup(data[i][2][2], lastOp.args[1])[2]) :
            Lookup(data[i][2][2], lastOp.args[1])[2][j] = Str("")

\* C7: the entries of get_attribute_values are in non-increasing order of
\* count; with a limit given (any limit >= 0, 0 too) the result is the
\* first limit entries of the untruncated result, so it has at most limit
\* entries; with no limit every counted value is returned.
C7_SortedAndLimited ==
  lastOp.op = "get_attribute_values" =>
    LET limit == lastOp.args[2]
        all == get_attribute_values(data, lastOp.args[1], None,
                                    lastOp.args[3])
    IN /\ \A i \in 1..(Len(result) - 1) : result[i][2] >= result[i + 1][2]
       /\ IF limit = None
            THEN result = all
            ELSE /\ Len(result) <= limit[2]
                 /\ result = Take(all, limit[2])

\* C8: get_files_with_attribute(attribute, value) with a value returns
\* exactly the indexed notes that contain attribute and whose stored value
\* equals value or is a list with value as a member; a note whose stored
\* value is a list equal to the searched list is returned.
C8_FilesMatchEqualOrMember ==
  (/\ lastOp.op = "get_files_with_attribute"
   /\ lastOp.args[2] # None
   /\ lastOp.args[3] = None) =>
    LET attribute == lastOp.args[1]
        value == lastOp.args[2]
        fm(i) == data[i][2][2]
        stored(i) == Lookup(fm(i), attribute)
        matching == {data[i][1] : i \in {n \in 1..Len(data) :
                       /\ HasKey(fm(n), attribute)
                       /\ \/ PyEq(stored(n), value)
                          \/ /\ IsList(stored(n))
                             /\ \E j \in 1..Len(stored(n)[2]) :
                                  PyEq(stored(n)[2][j], value)}}
    IN {result[i] : i \in 1..Len(result)} = matching

\* C9: get_files_with_attribute lists the qualifying notes without
\* duplicates in index insertion order; with a limit given (any limit >= 0,
\* 0 too) the result is the prefix of length min(limit, number of
\* qualifying notes) of that list.
C9_FilesPrefixOfQualifying ==
  lastOp.op = "get_files_with_attribute" =>
    LET attribute == lastOp.args[1]
        value == lastOp.args[2]
        limit == lastOp.args[3]
        qualifies(i) ==
          /\ HasKey(data[i][2][2], attribute)
          /\ \/ value = None
             \/ _values_match(Lookup(data[i][2][2], attribute), value)
        nq(n) == Cardinality({i \in 1..n : qualifies(i)})
        isPrefix(len) ==
          /\ Len(result) = len
          /\ \A r \in 1..len :
               \E i \in 1..Len(data) :
                 qualifies(i) /\ nq(i) = r /\ result[r] = data[i][1]
    IN /\ Cardinality({result[r] : r \in 1..Len(result)}) = Len(result)
       /\ IF limit = None
            THEN isPrefix(nq(Len(data)))
            ELSE isPrefix(IF limit[2] < nq(Len(data))
                            THEN limit[2] ELSE nq(Len(data)))

\* C10: get_attribute_values_with_notes: the count of every returned value
\* v is the number of indexed notes whose attribute value normalizes to v,
\* whatever limit_notes is; the note list is the first
\* min(limit_notes, count) of those notes in insertion order; the
\* (value, count) pairs are those of
\* get_attribute_values(attribute, limit_values, explode_list=False).
C10_NotesCountAndPrefix ==
  lastOp.op = "get_attribute_values_with_notes" =>
    LET attribute == lastOp.args[1]
        limit_values == lastOp.args[2]
        limit_notes == lastOp.args[3]
        has(i, v) ==
          /\ HasKey(data[i][2][2], attribute)
          /\ normalize_value(Lookup(data[i][2][2], attribute)) = v
        nv(n, v) == Cardinality({i \in 1..n : has(i, v)})
        count(v) == nv(Len(data), v)
        shown(v) == IF limit_notes = None \/ count(v) < limit_notes[2]
                      THEN count(v) ELSE limit_notes[2]
    IN /\ \A e \in 1..Len(result) :
            LET v == result[e][1]
                notes == result[e][2][2]
            IN /\ result[e][2][1] = count(v)
               /\ Len(notes) = shown(v)
               /\ \A r \in 1..Len(notes) :
                    \E i \in 1..Len(data) :
                      has(i, v) /\ nv(i, v) = r /\ notes[r] = data[i][1]
       /\ [e \in 1..Len(result) |-> <<result[e][1], result[e][2][1]>>]
            = get_attribute_values(data, attribute, limit_values, FALSE)

\* The value with every mapping built in the opposite insertion order, at
\* every depth
RECURSIVE reinserted(_)
reinserted(value) ==
  IF IsList(value)
    THEN List([i \in 1..Len(value[2]) |-> reinserted(value[2][i])])
  ELSE IF IsDict(value)
    THEN LET n == Len(value[2])
         IN Dict([i \in 1..n |->
                    <<value[2][n + 1 - i][1],
                      reinserted(value[2][n + 1 - i][2])>>])
  ELSE value

\* C11: normalize_value maps a scalar to itself, a list to the tuple of its
\* normalized elements in the same order, and a mapping to the tuple of its
\* (key, normalized value) pairs in ascending key order; the same mapping
\* built in another insertion order, at any depth, normalizes to the same
\* canonical value.
C11_NormalizeCanonical ==
  lastOp.op = "normalize_value" =>
    LET value == lastOp.args[1]
        key(i) == result[2][i][2][1][2]
    IN /\ (~IsList(value) /\ ~IsDict(value)) => result = value
       /\ IsList(value) =>
            result = Tuple([i \in 1..Len(value[2]) |->
                              normalize_value(value[2][i])])
       /\ IsDict(value) =>
            /\ IsTuple(result)
            /\ Len(result[2]) = Len(value[2])
            /\ \A i \in 1..Len(result[2]) :
                 /\ HasKey(value[2], key(i))
                 /\ result[2][i] =
                      Tuple(<<Str(key(i)),
                              normalize_value(Lookup(value[2], key(i)))>>)
            /\ \A i, j \in 1..Len(result[2]) :
                 i < j => StrRank(key(i)) < StrRank(key(j))
       /\ normalize_value(reinserted(value)) = result

\* A mapping inserted as b, a, whose b value is a mapping inserted as b, a,
\* has been normalized to its pairs in the order a, b at both depths
C11_Witness ==
  /\ lastOp.op = "normalize_value"
  /\ lastOp.args[1] =
       Dict(<< <<"b", Dict(<< <<"b", A>>, <<"a", None>> >>)>>,
               <<"a", None>> >>)
  /\ result =
       Tuple(<< Tuple(<<Str("a"), None>>),
                Tuple(<<Str("b"),
                        Tuple(<< Tuple(<<Str("a"), None>>),
                                 Tuple(<<Str("b"), A>>) >>)>>) >>)

\* v contains a non-empty list whose elements are all 2-element lists
RECURSIVE has_pair_list(_)
has_pair_list(v) ==
  IF IsList(v)
    THEN \/ /\ Len(v[2]) > 0
            /\ \A i \in 1..Len(v[2]) :
                 IsList(v[2][i]) /\ Len(v[2][i][2]) = 2
         \/ \E i \in 1..Len(v[2]) : has_pair_list(v[2][i])
  ELSE IF IsDict(v)
    THEN \E i \in 1..Len(v[2]) : has_pair_list(v[2][i][2])
  ELSE FALSE

\* v contains an empty mapping, or a non-empty list whose elements are all
\* 2-element lists or 2-entry mappings
RECURSIVE has_pair_shape(_)
has_pair_shape(v) ==
  IF IsList(v)
    THEN \/ /\ Len(v[2]) > 0
            /\ \A i \in 1..Len(v[2]) :
                 (IsList(v[2][i]) \/ IsDict(v[2][i])) /\ Len(v[2][i][2]) = 2
         \/ \E i \in 1..Len(v[2]) : has_pair_shape(v[2][i])
  ELSE IF IsDict(v)
    THEN \/ Len(v[2]) = 0
         \/ \E i \in 1..Len(v[2]) : has_pair_shape(v[2][i][2])
  ELSE FALSE

\* C12 as stated: for every value v, the empty list and the empty mapping
\* included, that contains no list whose elements are all 2-element lists,
\* denormalize_value(normalize_value(v)) == v.
C12_RoundTripAsStated ==
  (lastOp.op = "denormalize_value" /\ ~has_pair_list(lastOp.args[2]))
    => denormalized_eq(result, lastOp.args[2])

\* C12: for every value v that contains no empty mapping and no non-empty
\* list whose elements are all 2-element lists or 2-entry mappings,
\* denormalize_value(normalize_value(v)) == v.
C12_RoundTrip ==
  (lastOp.op = "denormalize_value" /\ ~has_pair_shape(lastOp.args[2]))
    => denormalized_eq(result, lastOp.args[2])

\* A mapping inserted as b, a that holds a list and a mapping has made the
\* round trip
C12_Witness ==
  /\ lastOp.op = "denormalize_value"
  /\ lastOp.args[2] =
       Dict(<< <<"b", List(<<A, None>>)>>,
               <<"a", Dict(<< <<"a", None>> >>)>> >>)
  /\ result =
       Dict(<< <<Str("a"), Dict(<< <<Str("a"), None>> >>)>>,
               <<Str("b"), List(<<A, None>>)>> >>)

\* C15: denormalize_value applied to a non-empty tuple of 2-tuples two of
\* which share their first component returns a list with one element per
\* tuple element; it returns a mapping only when the mapping has one entry
\* per pair.
C15_DuplicateKeysFallBackToList ==
  (lastOp.op = "denormalize_value" /\ IsTuple(lastOp.args[1])
     /\ all_pairs(lastOp.args[1])) =>
    LET items == lastOp.args[1][2]
        duplicate == \E i, j \in 1..Len(items) :
                       i < j /\ items[i][2][1] = items[j][2][1]
    IN /\ duplicate => (IsList(result) /\ Len(result[2]) = Len(items))
       /\ IsDict(result) => Len(result[2]) = Len(items)

\* C16: a step that is not an add_file call leaves the index unchanged,
\* whatever the arguments; a query for an attribute that no note contains
\* (the empty string included) returns an empty result or zero; no step
\* removes a path from the index.
C16_OnlyAddFileChangesIndex ==
  [][LET op == lastOp'.op
         args == lastOp'.args
         absent(a) == \A i \in 1..Len(data) : ~HasKey(data[i][2][2], a)
     IN /\ op # "add_file" => data' = data
        /\ \A i \in 1..Len(data) : HasKey(data', data[i][1])
        /\ (/\ op \in {"get_files_with_attribute", "get_attribute_values",
                       "get_attribute_values_with_notes"}
            /\ absent(args[1])) => result' = <<>>
        /\ (op = "get_child_count" /\ absent(args[2]) /\ absent(args[3]))
             => result' = 0
        /\ (/\ op \in {"get_child_counts_total", "get_child_counts_breakdown"}
            /\ absent(args[1]) /\ absent(args[2])) => result' = <<>>
    ]_vars

\* get_attribute_values("") has returned the empty result on an index of
\* two notes
C16_Witness ==
  /\ lastOp.op = "get_attribute_values"
  /\ lastOp.args[1] = ""
  /\ Len(data) = 2
  /\ Len(data[1][2][2]) > 0
  /\ result = <<>>

\* C17: in the results of get_child_counts_breakdown and of
\* get_child_counts_total the total of every entry is greater than or equal
\* to the total of the entry after it.
C17_OrderedByTotal ==
  /\ lastOp.op = "get_child_counts_breakdown" =>
       \A i \in 1..(Len(result) - 1) :
         result[i][2].total >= result[i + 1][2].total
  /\ lastOp.op = "get_child_counts_total" =>
       \A i \in 1..(Len(result) - 1) : result[i][2] >= result[i + 1][2]

\* get_child_counts_breakdown has returned two hubs with different totals
C17_Witness ==
  /\ lastOp.op = "get_child_counts_breakdown"
  /\ Len(result) = 2
  /\ result[1][2].total > result[2][2].total

\* The normalized values counted for attribute, in the order the index is
\* traversed: note by note in insertion order and, for an exploded list,
\* item by item
RECURSIVE occurrences(_, _, _, _)
occurrences(d, i, attribute, explode_list) ==
  IF i > Len(d) THEN <<>>
  ELSE LET frontmatter == d[i][2][2]
           value == Lookup(frontmatter, attribute)
           items == SelectSeq(value[2], LAMBDA item : ~skipped_item(item))
           here == IF ~HasKey(frontmatter, attribute) THEN <<>>
                   ELSE IF explode_list /\ IsList(value)
                     THEN [k \in 1..Len(items) |-> normalize_value(items[k])]
                     ELSE <<normalize_value(value)>>
       IN here \o occurrences(d, i + 1, attribute, explode_list)

\* C18: in the results of get_attribute_values and of
\* get_attribute_values_with_notes, of two values with the same count the
\* one first seen earlier in the traversal of the index comes earlier, and a
\* value cut off by the limit was first seen later than every returned
\* value with the same count.
C18_TiesInFirstSeenOrder ==
  (lastOp.op \in {"get_attribute_values", "get_attribute_values_with_notes"})
    =>
    LET explode_list == IF lastOp.op = "get_attribute_values"
                          THEN lastOp.args[3] ELSE FALSE
        occ == occurrences(data, 1, lastOp.args[1], explode_list)
        first(v) == CHOOSE k \in 1..Len(occ) :
                      occ[k] = v /\ \A l \in 1..(k - 1) : occ[l] # v
        count(v) == Cardinality({k \in 1..Len(occ) : occ[k] = v})
        returned == {result[i][1] : i \in 1..Len(result)}
    IN /\ \A i, j \in 1..Len(result) :
            (i < j /\ count(result[i][1]) = count(result[j][1]))
              => first(result[i][1]) < first(result[j][1])
       /\ \A i \in 1..Len(result) : \A k \in 1..Len(occ) :
            (occ[k] \notin returned /\ count(occ[k]) = count(result[i][1]))
              => first(result[i][1]) < first(occ[k])

\* Two notes hold the parent values B then A once each;
\* get_attribute_values("parent", limit=1) has returned B
C18_Witness ==
  /\ lastOp.op = "get_attribute_values"
  /\ lastOp.args = <<"parent", Num(1), FALSE>>
  /\ Len(data) = 2
  /\ HasKey(data[1][2][2], "parent") /\ Lookup(data[1][2][2], "parent") = B
  /\ HasKey(data[2][2][2], "parent") /\ Lookup(data[2][2][2], "parent") = A
  /\ result = << <<B, 1>> >>

\* C13: when the scan is complete the key set of the index is exactly the
\* set of discovered paths whose parse_file result is not None, each with
\* the mapping parse_file returned (the empty mapping of a note without a
\* metadata block included), a failed decode has not stopped the scan, and
\* get_total_files() is the size of that set.
C13_IndexIsDecodedFiles ==
  (lastOp.op \in {"return", "stats"}) =>
    LET discovered == lastOp.args[1]
        decoded == {i \in 1..Len(discovered) : discovered[i][2] # None}
    IN /\ Keys(data) = {discovered[i][1] : i \in decoded}
       /\ \A i \in decoded : Lookup(data, discovered[i][1]) = discovered[i][2]
       /\ \A i \in 1..Len(discovered) :
            discovered[i][2] = None => ~HasKey(data, discovered[i][1])
       /\ lastOp.op = "stats" => result = Cardinality(decoded)

\* The scan found a file whose decode failed and then a note without a
\* metadata block; the index holds the second one only and
\* get_total_files() is 1
C13_Witness ==
  /\ lastOp.op = "stats"
  /\ lastOp.args[1] = << <<1, None>>, <<2, Dict(<<>>)>> >>
  /\ data = << <<2, Dict(<<>>)>> >>
  /\ result = 1

\* name ends with suf when case is ignored
ends_with_ignoring_case(name, suf) ==
  /\ Len(name) > Len(suf)
  /\ lower(SubSeq(name, Len(name) - Len(suf) + 1, Len(name))) = suf

\* an entry the scan has to yield or to descend into: a regular file named
\* *.md or *.markdown or a directory, whose name neither starts with '.'
\* nor is in SKIP_DIRS
to_traverse(e) ==
  /\ e.name[1] # "." /\ e.name \notin SKIP_DIRS
  /\ \/ e.kind = "dir"
     \/ /\ e.kind = "file"
        /\ \E suf \in NoteSuffixes : ends_with_ignoring_case(e.name, suf)

\* C14: scan() yields only regular files whose suffix is .md or .markdown
\* when case is ignored; no component of a yielded path starts with '.' or
\* is in SKIP_DIRS; every such file and every directory of a listing is
\* yielded or entered when the loop reaches it; and when a permission error
\* ends the loop of a directory, no entry that had to be traversed is left
\* unvisited in it.
C14_ScanYieldsNotes ==
  LET directory == lastOp.args[1]
      remaining == lastOp.args[2]
      item == lastOp.args[3]
  IN /\ lastOp.op = "yield" =>
          /\ item.kind = "file"
          /\ \E suf \in NoteSuffixes : ends_with_ignoring_case(item.name, suf)
          /\ result = Append(directory, item.name)
          /\ \A k \in 1..Len(result) :
               result[k][1] # "." /\ result[k] \notin SKIP_DIRS
     /\ lastOp.op = "continue" => ~to_traverse(item)
     /\ lastOp.op = "PermissionError" =>
          \A k \in 1..Len(remaining) : ~to_traverse(remaining[k])

====
